---------------------------- MODULE Spec2Model ----------------------------
(***************************************************************************)
(* cramCortex: the chunked LLM orchestration pipeline.                     *)
(*                                                                         *)
(*   backend/app/services/llm_service.py       question analysis           *)
(*   backend/app/services/hebrew_translator.py Hebrew -> English           *)
(*                                                                         *)
(* An exam text is a sequence of lines; a line is abstracted to what the   *)
(* regular expressions of llm_service.py can tell about it: the kind of    *)
(* its opening (a number and a delimiter, "Question 3:", "(3)", ...), the  *)
(* number, its length, and whether it holds a question indicator.  Lines   *)
(* carry no leading or trailing whitespace; a blank line is the empty      *)
(* line.  The text is its lines joined by "\n".                            *)
(***************************************************************************)
EXTENDS Integers, Sequences, FiniteSets, TLC

VARIABLES
    op,                  \* the operation invoked: "chunk", "analyze", "translate"
    text,                \* its argument
    pc,                  \* "start", "gather" (chunk tasks running), "done"
    numbered_questions,  \* analyze_text_with_llm: the deterministic scan
    chunks,              \* the chunk list
    task,                \* the chunk tasks given to asyncio.gather
    semaphore,           \* value of the asyncio.Semaphore
    completed,           \* chunk indices in the order their tasks finished
    llm,                 \* the ways a call to the LLM may end in this run
    result,              \* the value returned
    log                  \* what the operation logged (coverage, validation passes)

vars == <<op, text, pc, numbered_questions, chunks, task, semaphore, completed, llm, result, log>>

-----------------------------------------------------------------------------
(* Bounds of the model and constants of the program                        *)

MaxLines == 3

max_chunk_size == 3000

-----------------------------------------------------------------------------
(* Lines and texts                                                         *)

Line(k, n, len, q) == [k |-> k, n |-> n, len |-> len, q |-> q]

BlankLine == Line("blank", 0, 0, FALSE)

Max(a, b) == IF a >= b THEN a ELSE b

Min(a, b) == IF a <= b THEN a ELSE b

RECURSIVE SumLen(_)
SumLen(ls) == IF ls = <<>> THEN 0 ELSE ls[1].len + SumLen(Tail(ls))

\* len("\n".join(ls))
LinesLen(ls) == IF ls = <<>> THEN 0 ELSE SumLen(ls) + (Len(ls) - 1)

\* str.strip() of joined lines: leading and trailing blank lines go
RECURSIVE RStrip(_)
RStrip(ls) ==
    IF ls # <<>> /\ ls[Len(ls)].k = "blank" THEN RStrip(SubSeq(ls, 1, Len(ls) - 1)) ELSE ls

RECURSIVE LStrip(_)
LStrip(ls) == IF ls # <<>> /\ ls[1].k = "blank" THEN LStrip(Tail(ls)) ELSE ls

Strip(ls) == LStrip(RStrip(ls))

IsBlank(l) == l.k = "blank"

NotBlank(l) == l.k # "blank"

-----------------------------------------------------------------------------
(* LLMService._preprocess_text                                             *)

\* an instruction pattern "^...\n" deletes a matching line that a newline follows
RECURSIVE DropInstructions(_)
DropInstructions(ls) ==
    IF Len(ls) <= 1 THEN ls
    ELSE IF ls[1].k = "instr" THEN DropInstructions(Tail(ls))
    ELSE <<ls[1]>> \o DropInstructions(Tail(ls))

\* re.sub(r'^\s+', '', text, MULTILINE) deletes every blank line; the newline
\* that ends the text stays when a non-blank line precedes it
_preprocess_text(t) ==
    LET kept == DropInstructions(t)
        nonblank == SelectSeq(kept, NotBlank)
    IN  IF nonblank = <<>> THEN <<BlankLine>>
        ELSE IF IsBlank(kept[Len(kept)]) THEN Append(nonblank, BlankLine)
        ELSE nonblank

-----------------------------------------------------------------------------
(* LLMService._chunk_text_intelligently                                    *)

NumPatterns == 8

\* which line a question pattern's lookahead recognises as the start of a unit
PatternMatches(p, l) ==
    CASE p = 1 -> l.k = "num"
      [] p = 2 -> l.k = "sheela"
      [] p = 3 -> l.k = "question"
      [] p = 4 -> l.k = "qn"
      [] p = 5 -> l.k = "paren"
      [] p = 6 -> l.k = "dash"
      [] OTHER -> l.k = "num" /\ l.q

\* re.split(pattern, text): a zero-width split before every matching line
RECURSIVE SplitLines(_, _, _, _)
SplitLines(ls, p, cur, acc) ==
    IF ls = <<>> THEN Append(acc, cur)
    ELSE IF PatternMatches(p, ls[1]) THEN SplitLines(Tail(ls), p, <<ls[1]>>, Append(acc, cur))
    ELSE SplitLines(Tail(ls), p, Append(cur, ls[1]), acc)

RECURSIVE StripAll(_)
StripAll(segs) == IF segs = <<>> THEN <<>> ELSE <<Strip(segs[1])>> \o StripAll(Tail(segs))

LongerThan15(s) == s # <<>> /\ LinesLen(s) > 15

LongerThan20(s) == s # <<>> /\ LinesLen(s) > 20

ValidSegments(t, p) == SelectSeq(StripAll(SplitLines(t, p, <<>>, <<>>)), LongerThan15)

\* best_segments / best_count after the loop over the question patterns
RECURSIVE BestOfPatterns(_, _, _)
BestOfPatterns(t, p, best) ==
    IF p > NumPatterns THEN best
    ELSE LET v == ValidSegments(t, p)
         IN  IF Len(v) > best.count
             THEN BestOfPatterns(t, p + 1, [segs |-> v, count |-> Len(v), none |-> FALSE])
             ELSE BestOfPatterns(t, p + 1, best)

\* re.match(r'^\d+[\.\)\-\s]+', line) and len(line) > 3
StartsNumbered(l) == l.k \in {"num", "dash", "numsp"} /\ l.len > 3

\* the fallback: segments opened by a numbered line; lines before the first are lost
RECURSIVE FallbackSegments(_, _, _)
FallbackSegments(ls, cur, acc) ==
    IF ls = <<>> THEN (IF cur # <<>> THEN Append(acc, Strip(cur)) ELSE acc)
    ELSE IF StartsNumbered(ls[1])
         THEN FallbackSegments(Tail(ls), <<ls[1]>>,
                               IF cur # <<>> THEN Append(acc, Strip(cur)) ELSE acc)
    ELSE IF cur # <<>> THEN FallbackSegments(Tail(ls), Append(cur, ls[1]), acc)
    ELSE FallbackSegments(Tail(ls), cur, acc)

HasIndicator(l) == l.q

IsInstruction(l) == l.k = "instr"

_looks_like_question_content(s) ==
    /\ \E i \in 1..Len(s) : HasIndicator(s[i])
    /\ LinesLen(s) > 15
    /\ ~ \E i \in 1..Len(s) : IsInstruction(s[i])

\* the segments the chunks are packed from
BestSegments(t) ==
    LET b0 == BestOfPatterns(t, 1, [segs |-> <<>>, count |-> 0, none |-> TRUE])
        fb == SelectSeq(FallbackSegments(t, <<>>, <<>>), LongerThan20)
        b1 == IF (b0.none \/ b0.segs = <<>> \/ b0.count < 10) /\ Len(fb) > b0.count
              THEN fb ELSE b0.segs
        whole == Strip(t)
    IN  IF b1 # <<>> THEN b1
        ELSE IF whole # <<>> /\ _looks_like_question_content(whole) THEN <<whole>>
        ELSE <<>>

RECURSIVE SumSegLen(_)
SumSegLen(segs) == IF segs = <<>> THEN 0 ELSE LinesLen(segs[1]) + SumSegLen(Tail(segs))

\* len("\n\n".join(segs))
PackedLen(segs) == IF segs = <<>> THEN 0 ELSE SumSegLen(segs) + 2 * (Len(segs) - 1)

PackedChunk(segs) == [kind |-> "packed", segs |-> segs, lo |-> 0, hi |-> 0, len |-> PackedLen(segs)]

SliceChunk(lo, hi) == [kind |-> "slice", segs |-> <<>>, lo |-> lo, hi |-> hi, len |-> hi - lo]

\* does the segment still fit the current chunk?
ExceedsChunk(cur, seg) == PackedLen(cur) + LinesLen(seg) > max_chunk_size

RECURSIVE PackSegments(_, _, _)
PackSegments(segs, cur, acc) ==
    IF segs = <<>> THEN (IF cur # <<>> THEN Append(acc, PackedChunk(cur)) ELSE acc)
    ELSE IF ExceedsChunk(cur, segs[1])
         THEN PackSegments(Tail(segs), <<segs[1]>>,
                           IF cur # <<>> THEN Append(acc, PackedChunk(cur)) ELSE acc)
    ELSE PackSegments(Tail(segs), Append(cur, segs[1]), acc)

\* text[i:i + max_chunk_size] for i in range(0, len(text), max_chunk_size)
FixedSlices(n) ==
    [i \in 1..((n + max_chunk_size - 1) \div max_chunk_size) |->
        SliceChunk((i - 1) * max_chunk_size, Min(i * max_chunk_size, n))]

_chunk_text_intelligently(raw) ==
    LET t == _preprocess_text(raw)
        packed == PackSegments(BestSegments(t), <<>>, <<>>)
    IN  IF Len(packed) = 1 /\ LinesLen(t) > max_chunk_size
        THEN FixedSlices(LinesLen(t))
        ELSE packed

-----------------------------------------------------------------------------
(* LLMService._extract_numbered_questions_deterministic                    *)

DetRecord(num, cur) == [number |-> num, text |-> RStrip(cur)]

\* re.match(r'^(\d+)[\.\)]\s*(.*)', line)
NumberMatch(l) == l.k = "num"

RECURSIVE DetScan(_, _, _, _)
DetScan(ls, cur, num, acc) ==
    LET saved == IF cur # <<>> /\ num > 0 THEN Append(acc, DetRecord(num, cur)) ELSE acc
    IN  IF ls = <<>> THEN saved
        ELSE IF NumberMatch(ls[1]) THEN DetScan(Tail(ls), <<ls[1]>>, ls[1].n, saved)
        ELSE IF cur # <<>> /\ num > 0 THEN DetScan(Tail(ls), Append(cur, ls[1]), num, acc)
        ELSE DetScan(Tail(ls), cur, num, acc)

_extract_numbered_questions_deterministic(t) == DetScan(t, <<>>, 0, <<>>)

-----------------------------------------------------------------------------
(* Candidate questions of an LLM response.  A candidate is abstracted to   *)
(* what the merge and _validate_question read of it: whether it is a JSON  *)
(* object, whether question_text is null, the verdicts of the validator's  *)
(* text tests, the leading numeral of question_text, question_id.          *)

GoodCand(n) ==
    [ object |-> TRUE,        \* a JSON object
      text_null |-> FALSE,    \* "question_text": null
      long |-> TRUE,          \* len(question_text) >= 10
      reject |-> FALSE,       \* matches one of reject_patterns
      indicator |-> TRUE,     \* holds a question indicator
      options |-> TRUE,       \* holds a multiple-choice marker
      qmark |-> TRUE,         \* holds '?'
      conf |-> 95,            \* confidence_score, in hundredths
      conf_str |-> FALSE,     \* confidence_score is a string
      qtype |-> "multiple_choice",
      numbered |-> TRUE,      \* question_text opens with "<num>." or "<num>)"
      num |-> n,
      has_id |-> TRUE,        \* carries "question_id": "q_<id>"
      id |-> n ]

UnnumberedCand(n) == [GoodCand(n) EXCEPT !.numbered = FALSE, !.num = 0]

RejectedCand(n) == [GoodCand(n) EXCEPT !.reject = TRUE]

NullTextCand(n) == [GoodCand(n) EXCEPT !.text_null = TRUE]

\* the candidate makes the merge loop raise (lines 718, 426, 480)
Raises(c) ==
    \/ ~c.object
    \/ c.text_null
    \/ (c.conf_str /\ c.long /\ ~c.reject /\ (c.indicator \/ c.options))

\* LLMService._validate_question, for a candidate it does not raise on
_validate_question(c) ==
    IF ~c.long THEN FALSE
    ELSE IF c.reject THEN FALSE
    ELSE IF ~(c.indicator \/ c.options) THEN FALSE
    ELSE IF c.conf < 1 THEN FALSE
    ELSE IF c.qtype = "unknown" /\ ~c.options /\ ~c.qmark /\ ~c.numbered THEN FALSE
    ELSE TRUE

-----------------------------------------------------------------------------
(* LLMService._call_openai_api: one chunk task                             *)

analysis_max_retries == 3

translate_max_retries == 5

SemaphoreSlots == 3

NoResult == [none |-> TRUE, hasq |-> FALSE, questions |-> <<>>]

ResultDict(hasq, qs) == [none |-> FALSE, hasq |-> hasq, questions |-> qs]

\* a task whose first delay is already doubled
NewTaskDoubledDelay ==
    [ st |-> "waiting",
      attempt |-> 0,
      retry_delay |-> 2,
      calls |-> 0,
      delays |-> <<>>,
      ret |-> NoResult ]

NewTask ==
    [ st |-> "waiting",     \* "waiting" for a slot, "calling", "sleeping", "done"
      attempt |-> 0,
      retry_delay |-> 1,
      calls |-> 0,          \* LLM calls issued
      delays |-> <<>>,      \* the asyncio.sleep delays taken
      ret |-> NoResult ]

Returned(t, r) == [t EXCEPT !.st = "done", !.ret = r]

\* an except branch that lets the exception of the last attempt through
OnExceptionReraises(t, max_retries, exhausted) ==
    IF t.attempt < max_retries - 1
    THEN [t EXCEPT !.st = "sleeping", !.delays = Append(@, t.retry_delay),
                   !.retry_delay = 2 * @]
    ELSE [t EXCEPT !.st = "raised"]

\* the except branch of both retry loops
OnException(t, max_retries, exhausted) ==
    IF t.attempt < max_retries - 1
    THEN [t EXCEPT !.st = "sleeping", !.delays = Append(@, t.retry_delay),
                   !.retry_delay = 2 * @]
    ELSE Returned(t, exhausted)

\* the loop goes on to its next attempt and issues the next call
NextAttempt(t) == [t EXCEPT !.st = "calling", !.attempt = @ + 1, !.calls = @ + 1]

\* what one attempt of _call_openai_api does with the outcome of its call
CallOpenAIStep(t, outcome) ==
    CASE outcome.kind = "ok" -> Returned(t, outcome.result)
      [] outcome.kind = "parse_fail" ->
            IF t.attempt = analysis_max_retries - 1 THEN Returned(t, NoResult)
            ELSE NextAttempt(t)
      [] OTHER -> OnException(t, analysis_max_retries, NoResult)

-----------------------------------------------------------------------------
(* LLMService.analyze_text_with_llm: phases 3 to 5                         *)

ExpectedQuestions == 10

RecoveryChunk == 0

LLMQuestion(c, i, n) ==
    [ question_id |-> [src |-> "chunk", chunk |-> i, given |-> c.has_id,
                       n |-> IF c.has_id THEN c.id ELSE n],
      numbered |-> c.numbered,
      num |-> c.num,
      source_chunk |-> i,
      detection_method |-> "llm",
      cand |-> c ]

RecoveredQuestion(d) ==
    [ question_id |-> [src |-> "recovery", chunk |-> RecoveryChunk, given |-> TRUE, n |-> d.number],
      numbered |-> TRUE,
      num |-> d.number,
      source_chunk |-> RecoveryChunk,
      detection_method |-> "deterministic_recovery",
      cand |-> GoodCand(d.number) ]

\* the loop over one chunk's candidates; acc = [qs, raised]
RECURSIVE MergeCandidates(_, _, _)
MergeCandidates(cs, i, acc) ==
    IF cs = <<>> \/ acc.raised THEN acc
    ELSE IF Raises(cs[1]) THEN [acc EXCEPT !.raised = TRUE]
    ELSE IF _validate_question(cs[1])
         THEN MergeCandidates(Tail(cs), i,
                              [acc EXCEPT !.qs = Append(@, LLMQuestion(cs[1], i, Len(acc.qs)))])
    ELSE MergeCandidates(Tail(cs), i, acc)

\* for i, result in enumerate(results)
RECURSIVE MergeResults(_, _, _)
MergeResults(results, i, acc) ==
    IF i > Len(results) \/ acc.raised THEN acc
    ELSE IF ~results[i].none /\ results[i].hasq
         THEN MergeResults(results, i + 1, MergeCandidates(results[i].questions, i, acc))
    ELSE MergeResults(results, i + 1, acc)

\* the numbers parsed from the leading numerals of question_text
FoundNumbers(qs) == {qs[k].num : k \in {j \in 1..Len(qs) : qs[j].numbered}}

\* a recovery that takes every missing record, whatever the length of its text
RecoverableAnyLength(d, found) == d.number \notin found

\* a record is recovered when its number is missing and its text is long enough
Recoverable(d, found) == d.number \notin found /\ LinesLen(d.text) > 20

RECURSIVE RecoverFrom(_, _)
RecoverFrom(dets, found) ==
    IF dets = <<>> THEN <<>>
    ELSE (IF Recoverable(dets[1], found) THEN <<RecoveredQuestion(dets[1])>> ELSE <<>>)
         \o RecoverFrom(Tail(dets), found)

_recover_missing_questions(dets, found_questions) == RecoverFrom(dets, FoundNumbers(found_questions))

\* phase 4: recovery runs when fewer than ten questions were accepted
NeedsRecovery(all_questions) == Len(all_questions) < ExpectedQuestions

WithRecovery(all_questions, dets) ==
    IF NeedsRecovery(all_questions)
    THEN all_questions \o _recover_missing_questions(dets, all_questions)
    ELSE all_questions

\* _validate_against_deterministic_scan: the coverage it logs, in percent
Coverage(final_questions) ==
    (Cardinality(FoundNumbers(final_questions) \cap (1..ExpectedQuestions)) * 100)
        \div ExpectedQuestions

\* a gather that hands back the return values in the order the tasks finished
GatherAsCompleted(tasks, order) == [i \in 1..Len(order) |-> tasks[order[i]].ret]

\* asyncio.gather: the tasks' return values in the order the tasks were given
Gather(tasks, order) == [i \in 1..Len(tasks) |-> tasks[i].ret]

AnalysisResult(qs, nchunks) ==
    [ none |-> FALSE, questions |-> qs, total_questions |-> Len(qs),
      chunks_processed |-> nchunks, processing_success |-> TRUE ]

\* the except branch of analyze_text_with_llm
AnalysisFailure ==
    [ none |-> FALSE, questions |-> <<>>, total_questions |-> 0,
      chunks_processed |-> 0, processing_success |-> FALSE ]

-----------------------------------------------------------------------------
(* The replies of the LLM to the analysis prompt of a chunk.  The reply    *)
(* is any of: the chunk's numbered questions as they stand ("echo"), with  *)
(* the first one left out ("omit"), without their numbers ("unnumbered"),  *)
(* each given twice ("twice"), with the first one turned into a header     *)
(* line the validator rejects ("header") or into a candidate whose         *)
(* question_text is null ("null_text"), or an object without "questions".  *)

RECURSIVE NumsOfLines(_)
NumsOfLines(ls) ==
    IF ls = <<>> THEN <<>>
    ELSE (IF ls[1].k = "num" THEN <<ls[1].n>> ELSE <<>>) \o NumsOfLines(Tail(ls))

RECURSIVE NumsOfSegments(_)
NumsOfSegments(segs) ==
    IF segs = <<>> THEN <<>> ELSE NumsOfLines(segs[1]) \o NumsOfSegments(Tail(segs))

ChunkNums(c) == NumsOfSegments(c.segs)

Echo(c) == [k \in 1..Len(ChunkNums(c)) |-> GoodCand(ChunkNums(c)[k])]

ReplaceFirst(cs, x) == IF cs = <<>> THEN <<>> ELSE <<x>> \o Tail(cs)

Reply(kind, c) ==
    CASE kind = "echo" -> ResultDict(TRUE, Echo(c))
      [] kind = "omit" -> ResultDict(TRUE, IF Echo(c) = <<>> THEN <<>> ELSE Tail(Echo(c)))
      [] kind = "unnumbered" ->
            ResultDict(TRUE, [k \in 1..Len(ChunkNums(c)) |-> UnnumberedCand(ChunkNums(c)[k])])
      [] kind = "twice" -> ResultDict(TRUE, Echo(c) \o Echo(c))
      [] kind = "header" ->
            ResultDict(TRUE, IF Echo(c) = <<>> THEN <<>>
                             ELSE ReplaceFirst(Echo(c), RejectedCand(ChunkNums(c)[1])))
      [] kind = "null_text" ->
            ResultDict(TRUE, IF Echo(c) = <<>> THEN <<>>
                             ELSE ReplaceFirst(Echo(c), NullTextCand(ChunkNums(c)[1])))
      [] OTHER -> ResultDict(FALSE, <<>>)

AllReplyKinds == {"echo", "omit", "unnumbered", "twice", "header", "null_text", "no_questions"}

Outcome(kind, r) == [kind |-> kind, result |-> r]

\* the ways a call may end: it raises ("exc"), its content cannot be parsed
\* ("parse_fail"), or it is parsed into one of the replies
AllCallEndings == {"exc", "parse_fail"} \cup AllReplyKinds

OutcomeOf(k, c) ==
    IF k \in {"exc", "parse_fail"} THEN Outcome(k, NoResult) ELSE Outcome("ok", Reply(k, c))

\* how a call of chat.completions.create for chunk c may end in this run
AnalysisOutcomes(c) == {OutcomeOf(k, c) : k \in llm}

-----------------------------------------------------------------------------
(* Strings of the translation path.  A string is a sequence of runs, a run *)
(* being n >= 1 characters of one class, and no two neighbouring runs are  *)
(* of the same class.  The classes, each with a character of it:           *)
(*   "a"     'a'     ASCII letter, digit, or one of , ; : ( ) " ' -         *)
(*   "."     '.'     sentence ending . ! ?                                  *)
(*   "sp"    ' '     space                                                  *)
(*   "nl"    '\n'    newline                                                *)
(*   "br"    '['     ASCII outside the allow-list: [ ] _ >                  *)
(*   "art"   the seven characters of the artifact "Output:", repeated       *)
(*   "heb"   U+05D0  Hebrew block                                           *)
(*   "arsup" U+0750  Arabic Supplement                                      *)
(*   "rlm"   U+200F  right-to-left mark                                     *)
(*   "gp"    U+2014  General Punctuation other than the RTL marks           *)
(*   "nbsp"  U+00A0  non-ASCII white space                                  *)
(*   "lat"   U+00E9  any other non-ASCII character                          *)

Run(c, n) == [c |-> c, n |-> n]

RECURSIVE StrLen(_)
StrLen(s) == IF s = <<>> THEN 0 ELSE s[1].n + StrLen(Tail(s))

RECURSIVE Norm(_)
Norm(s) ==
    IF Len(s) <= 1 THEN s
    ELSE IF s[1].c = s[2].c
         THEN Norm(<<Run(s[1].c, s[1].n + s[2].n)>> \o SubSeq(s, 3, Len(s)))
    ELSE <<s[1]>> \o Norm(Tail(s))

Cat(s, t) == Norm(s \o t)

\* the characters of s whose class is in C
Keep(s, C) == LET In(r) == r.c \in C IN Norm(SelectSeq(s, In))

Without(s, C) == LET Out(r) == r.c \notin C IN Norm(SelectSeq(s, Out))

Classes(s) == {s[k].c : k \in 1..Len(s)}

\* \s of the re module and str.strip()
Whitespace == {"sp", "nl", "nbsp"}

Ascii == {"a", ".", "sp", "nl", "br", "art"}

RECURSIVE LStripStr(_)
LStripStr(s) == IF s # <<>> /\ s[1].c \in Whitespace THEN LStripStr(Tail(s)) ELSE s

RECURSIVE RStripStr(_)
RStripStr(s) ==
    IF s # <<>> /\ s[Len(s)].c \in Whitespace THEN RStripStr(SubSeq(s, 1, Len(s) - 1)) ELSE s

StripStr(s) == LStripStr(RStripStr(s))

\* re.sub(r'\s+', ' ', text)
RECURSIVE CollapseSpaces(_)
CollapseSpaces(s) ==
    IF s = <<>> THEN <<>>
    ELSE IF s[1].c \in Whitespace THEN <<Run("sp", 1)>> \o CollapseSpaces(LStripStr(s))
    ELSE <<s[1]>> \o CollapseSpaces(Tail(s))

\* the decimal digits of a length
Digits(n) == IF n < 10 THEN 1 ELSE IF n < 100 THEN 2 ELSE IF n < 1000 THEN 3 ELSE 4

\* a marker "[WORD_WORD_...]" with the given word lengths
RECURSIVE MarkerWords(_)
MarkerWords(ws) ==
    IF Len(ws) = 1 THEN <<Run("a", ws[1])>>
    ELSE <<Run("a", ws[1]), Run("br", 1)>> \o MarkerWords(Tail(ws))

Marker(ws) == <<Run("br", 1)>> \o MarkerWords(ws) \o <<Run("br", 1)>>

EMPTY_RESPONSE == Marker(<<5, 8>>)

SANITIZATION_FAILED == Marker(<<12, 6>>)

ASCII_PURGE_RESULT_EMPTY == Marker(<<5, 5, 6, 5>>)

TRANSLATION_FAILED_FOR_CHUNK(i) == Marker(<<11, 6, 3, 5, Digits(i)>>)

TRANSLATION_ERROR_CHUNK(i) == Marker(<<11, 5, 5, Digits(i)>>)

\* "[CATASTROPHIC_TRANSLATION_FAILURE - HEBREW_REMOVAL_IMPOSSIBLE]"
CATASTROPHIC_FAILURE ==
    <<Run("br", 1), Run("a", 12), Run("br", 1), Run("a", 11), Run("br", 1), Run("a", 7),
      Run("sp", 1), Run("a", 1), Run("sp", 1), Run("a", 6), Run("br", 1), Run("a", 7),
      Run("br", 1), Run("a", 10), Run("br", 1)>>

\* "[TRANSLATION_CLEANED: <n> chars -> <m> chars] "
TRANSLATION_CLEANED(n, m) ==
    <<Run("br", 1), Run("a", 11), Run("br", 1), Run("a", 8), Run("sp", 1),
      Run("a", Digits(n)), Run("sp", 1), Run("a", 5), Run("sp", 1), Run("a", 1),
      Run("br", 1), Run("sp", 1), Run("a", Digits(m)), Run("sp", 1), Run("a", 5),
      Run("br", 1), Run("sp", 1)>>

\* HebrewTranslator._is_hebrew_text
HebrewTextClasses == {"heb", "arsup"}

_is_hebrew_text(s) == Classes(s) \cap HebrewTextClasses # {}

\* a check that also flags the Latin letters and digits
ContainsLettersOrHebrew(s) == Classes(s) \cap {"a", "heb", "rlm"} # {}

\* HebrewTranslator._contains_hebrew_characters
FlaggedClasses == {"heb", "rlm"}

_contains_hebrew_characters(s) == Classes(s) \cap FlaggedClasses # {}

\* HebrewTranslator._force_remove_hebrew
ForceRemovedClasses == {"heb", "rlm", "gp"}

_force_remove_hebrew(s) ==
    LET cleaned == StripStr(CollapseSpaces(Without(s, ForceRemovedClasses)))
    IN  IF StrLen(cleaned) * 10 < StrLen(s) * 3
        THEN Cat(TRANSLATION_CLEANED(StrLen(s), StrLen(cleaned)), cleaned)
        ELSE cleaned

\* HebrewTranslator._sanitize_llm_response
SanitizeAllowed == {"a", ".", "sp", "nl", "nbsp", "art"}

_sanitize_llm_response(raw_response) ==
    IF raw_response = <<>> THEN EMPTY_RESPONSE
    ELSE LET stripped == StripStr(raw_response)
             no_artifacts == StripStr(Without(stripped, {"art"}))
             cleaned == StripStr(CollapseSpaces(Keep(no_artifacts, SanitizeAllowed)))
         IN  IF cleaned = <<>> THEN SANITIZATION_FAILED ELSE cleaned

\* HebrewTranslator._emergency_hebrew_purge
_emergency_hebrew_purge(s) ==
    LET ascii_only == StripStr(CollapseSpaces(Keep(s, Ascii)))
    IN  IF ascii_only = <<>> THEN ASCII_PURGE_RESULT_EMPTY ELSE ascii_only

-----------------------------------------------------------------------------
(* HebrewTranslator._chunk_hebrew_text                                      *)

Repeat(x, n) == [k \in 1..n |-> x]

\* the first k characters of s, and s without them
RECURSIVE TakeStr(_, _)
TakeStr(s, k) ==
    IF k <= 0 \/ s = <<>> THEN <<>>
    ELSE IF s[1].n <= k THEN <<s[1]>> \o TakeStr(Tail(s), k - s[1].n)
    ELSE <<Run(s[1].c, k)>>

RECURSIVE DropStr(_, _)
DropStr(s, k) ==
    IF k <= 0 \/ s = <<>> THEN s
    ELSE IF s[1].n <= k THEN DropStr(Tail(s), k - s[1].n)
    ELSE <<Run(s[1].c, s[1].n - k)>> \o Tail(s)

\* text.split('\n\n'): a run of n newlines holds n \div 2 separators
RECURSIVE SplitParagraphs(_, _)
SplitParagraphs(s, cur) ==
    IF s = <<>> THEN <<cur>>
    ELSE IF s[1].c = "nl" /\ s[1].n >= 2
         THEN <<cur>> \o Repeat(<<>>, (s[1].n \div 2) - 1)
                  \o SplitParagraphs(Tail(s), IF s[1].n % 2 = 1 THEN <<Run("nl", 1)>> ELSE <<>>)
    ELSE SplitParagraphs(Tail(s), Append(cur, s[1]))

\* HebrewTranslator._split_by_sentences
RECURSIVE SplitSentences(_, _)
SplitSentences(s, current_sentence) ==
    IF s = <<>>
    THEN (IF StripStr(current_sentence) # <<>> THEN <<StripStr(current_sentence)>> ELSE <<>>)
    ELSE IF s[1].c = "."
         THEN <<StripStr(Append(current_sentence, Run(".", 1)))>>
                  \o Repeat(<<Run(".", 1)>>, s[1].n - 1)
                  \o SplitSentences(Tail(s), <<>>)
    ELSE SplitSentences(Tail(s), Append(current_sentence, s[1]))

_split_by_sentences(s) == SplitSentences(s, <<>>)

AppendIfAny(chunks_, cur) == IF cur # <<>> THEN Append(chunks_, StripStr(cur)) ELSE chunks_

\* the loop over the sentences of an oversized paragraph; acc = [chunks, temp]
RECURSIVE PackSentences(_, _)
PackSentences(sentences, acc) ==
    IF sentences = <<>> THEN acc
    ELSE IF StrLen(acc.temp) + StrLen(sentences[1]) + 1 > max_chunk_size
         THEN PackSentences(Tail(sentences),
                            [chunks |-> AppendIfAny(acc.chunks, acc.temp), temp |-> sentences[1]])
    ELSE PackSentences(Tail(sentences),
                       [acc EXCEPT !.temp = IF acc.temp # <<>>
                                            THEN Cat(Cat(acc.temp, <<Run("sp", 1)>>), sentences[1])
                                            ELSE sentences[1]])

\* the loop over the paragraphs; acc = [chunks, temp], temp being current_chunk
RECURSIVE PackParagraphs(_, _)
PackParagraphs(paragraphs, acc) ==
    IF paragraphs = <<>> THEN AppendIfAny(acc.chunks, acc.temp)
    ELSE IF StrLen(acc.temp) + StrLen(paragraphs[1]) + 2 > max_chunk_size
         THEN LET flushed == AppendIfAny(acc.chunks, acc.temp)
              IN  IF StrLen(paragraphs[1]) > max_chunk_size
                  THEN PackParagraphs(Tail(paragraphs),
                                      PackSentences(_split_by_sentences(paragraphs[1]),
                                                    [chunks |-> flushed, temp |-> <<>>]))
                  ELSE PackParagraphs(Tail(paragraphs),
                                      [chunks |-> flushed, temp |-> paragraphs[1]])
    ELSE PackParagraphs(Tail(paragraphs),
                        [acc EXCEPT !.temp = IF acc.temp # <<>>
                                             THEN Cat(Cat(acc.temp, <<Run("nl", 2)>>), paragraphs[1])
                                             ELSE paragraphs[1]])

\* for i in range(0, len(text), max_chunk_size): text[i:i + max_chunk_size]
RECURSIVE CharSlices(_)
CharSlices(s) ==
    IF s = <<>> THEN <<>>
    ELSE <<TakeStr(s, max_chunk_size)>> \o CharSlices(DropStr(s, max_chunk_size))

_chunk_hebrew_text(s) ==
    IF StrLen(s) <= max_chunk_size THEN <<s>>
    ELSE LET packed == PackParagraphs(SplitParagraphs(s, <<>>), [chunks |-> <<>>, temp |-> <<>>])
         IN  IF Len(packed) = 1 THEN CharSlices(s) ELSE packed

-----------------------------------------------------------------------------
(* HebrewTranslator._translate_chunk: one chunk task                       *)

Translated(s) == [none |-> FALSE, text |-> s]

MinTranslationLen == 10

\* what one attempt of _translate_chunk does with the outcome of its call;
\* index is the chunk's position, counted from 1 as in the markers
TranslateChunkStep(t, outcome, index) ==
    IF outcome.kind = "ok"
    THEN LET translation == _sanitize_llm_response(outcome.raw)
         IN  IF _contains_hebrew_characters(translation)
             THEN IF t.attempt = translate_max_retries - 1
                  THEN Returned(t, Translated(_force_remove_hebrew(translation)))
                  ELSE NextAttempt(t)
             ELSE IF translation # <<>> /\ StrLen(translation) > MinTranslationLen
                  THEN Returned(t, Translated(translation))
             ELSE IF t.attempt = translate_max_retries - 1
                  THEN Returned(t, Translated(TRANSLATION_FAILED_FOR_CHUNK(index)))
             ELSE NextAttempt(t)
    ELSE OnException(t, translate_max_retries, Translated(TRANSLATION_ERROR_CHUNK(index)))

-----------------------------------------------------------------------------
(* HebrewTranslator.translate_hebrew_to_english: joining and validation    *)

\* [chunk for chunk in translated_chunks if chunk is not None]
RECURSIVE SuccessfulTranslations(_)
SuccessfulTranslations(rets) ==
    IF rets = <<>> THEN <<>>
    ELSE (IF rets[1].none THEN <<>> ELSE <<rets[1].text>>) \o SuccessfulTranslations(Tail(rets))

\* "\n\n".join(parts)
RECURSIVE JoinParagraphs(_)
JoinParagraphs(parts) ==
    IF parts = <<>> THEN <<>>
    ELSE IF Len(parts) = 1 THEN parts[1]
    ELSE Cat(Cat(parts[1], <<Run("nl", 2)>>), JoinParagraphs(Tail(parts)))

JoinTranslations(successful, nchunks) ==
    IF nchunks = 1 THEN successful[1] ELSE JoinParagraphs(successful)

\* a second layer that finds the invalid characters and leaves them in
LeaveInvalid(s) == s

\* the allowed_chars set of the final validation
FinalAllowed == {"a", ".", "sp", "nl", "art"}

RemoveInvalid(s) == StripStr(CollapseSpaces(Keep(s, FinalAllowed)))

\* unicodedata.normalize('NFKC', s): U+00A0 becomes a space
NFKC(s) == Norm([k \in 1..Len(s) |-> IF s[k].c = "nbsp" THEN Run("sp", s[k].n) ELSE s[k]])

max_validation_attempts == 3

\* the while loop of the multi-layer validation; v = [text, passed, attempts]
RECURSIVE ValidationLoop(_)
ValidationLoop(v) ==
    IF v.passed \/ v.attempts >= max_validation_attempts THEN v
    ELSE LET n == v.attempts + 1
         IN  IF _contains_hebrew_characters(v.text)
             THEN ValidationLoop([text |-> _force_remove_hebrew(v.text), passed |-> FALSE, attempts |-> n])
             ELSE IF ~(Classes(v.text) \subseteq FinalAllowed)
                  THEN ValidationLoop([text |-> RemoveInvalid(v.text), passed |-> FALSE, attempts |-> n])
             ELSE IF NFKC(v.text) # v.text
                  THEN ValidationLoop([text |-> NFKC(v.text), passed |-> FALSE, attempts |-> n])
             ELSE [text |-> v.text, passed |-> TRUE, attempts |-> n]

\* the emergency fallback taken when the loop did not pass
EmergencyFallback(s) ==
    LET purged == _emergency_hebrew_purge(s)
    IN  IF Classes(purged) \subseteq Ascii THEN purged ELSE CATASTROPHIC_FAILURE

FinalTranslation(joined) ==
    LET v == ValidationLoop([text |-> joined, passed |-> FALSE, attempts |-> 0])
    IN  [ text |-> IF v.passed THEN v.text ELSE EmergencyFallback(v.text),
          passed |-> v.passed, attempts |-> v.attempts ]

\* the result dictionaries; hebrew_free_guaranteed is FALSE where the key is
\* absent, translated_chunks is -1 where the key is absent
TranslationResult(s, nchunks, ntranslated, success, has_hebrew, guaranteed, message) ==
    [ none |-> FALSE, translated_text |-> s, original_chunks |-> nchunks,
      translated_chunks |-> ntranslated, success |-> success, has_hebrew |-> has_hebrew,
      hebrew_free_guaranteed |-> guaranteed, message |-> message ]

\* an early return that hands back the text with its white space collapsed
NoHebrewResultCollapsed(s) ==
    TranslationResult(StripStr(CollapseSpaces(Without(s, {"rlm"}))), 1, -1, TRUE, FALSE, FALSE,
                      "No Hebrew text detected in input")

NoHebrewResult(s) ==
    TranslationResult(s, 1, -1, TRUE, FALSE, FALSE, "No Hebrew text detected in input")

AllChunksFailedResult(s, nchunks) ==
    TranslationResult(s, nchunks, -1, FALSE, TRUE, FALSE, "Translation failed for all chunks")

TranslatedResult(s, nchunks, ntranslated) ==
    TranslationResult(s, nchunks, ntranslated, TRUE, FALSE, TRUE, "Successfully translated")

\* everything after asyncio.gather has returned
FinishTranslation(s, nchunks, rets) ==
    LET successful == SuccessfulTranslations(rets)
    IN  IF successful = <<>> THEN AllChunksFailedResult(s, nchunks)
        ELSE TranslatedResult(FinalTranslation(JoinTranslations(successful, nchunks)).text,
                              nchunks, Len(successful))

\* TranslationService.translate_document with source_language "auto"
translate_document(r) ==
    [ inner |-> r, translated_text |-> r.translated_text, success |-> r.success,
      service |-> "TranslationService",
      source_language |-> IF r.has_hebrew THEN "hebrew" ELSE "unknown" ]

\* TranslationService.translate_exam_document
translate_exam_document(r) ==
    [ doc |-> translate_document(r), translated_text |-> translate_document(r).translated_text,
      document_category |-> IF translate_document(r).success THEN "educational" ELSE "absent" ]

-----------------------------------------------------------------------------
(* Input texts                                                             *)

LineMenu ==
    { Line("num", 1, 25, TRUE),        \* "1. What is encryption?"
      Line("num", 2, 16, TRUE),        \* "2. Why is it so?"
      Line("num", 3, 1500, TRUE),      \* a question with a long stem
      Line("num", 4, 3001, FALSE),     \* one unit longer than a chunk
      Line("question", 5, 30, TRUE),   \* "Question 5: how does TLS work?"
      Line("numsp", 6, 25, FALSE),     \* "6 Explain the CIA triad"
      Line("text", 0, 30, TRUE),       \* "A) To protect confidentiality?"
      Line("text", 0, 5, FALSE),       \* "Hello"
      Line("instr", 0, 40, FALSE),     \* "Instructions: answer all questions"
      BlankLine }

RECURSIVE TextsOfLen(_)
TextsOfLen(n) ==
    IF n = 0 THEN {<<>>}
    ELSE {Append(t, l) : t \in TextsOfLen(n - 1), l \in LineMenu}

\* "" is the one empty line
SmallTexts == {<<BlankLine>>} \cup UNION {TextsOfLen(n) : n \in 1..MaxLines}

-----------------------------------------------------------------------------
(* The operations                                                          *)

InitCommon ==
    /\ pc = "start"
    /\ numbered_questions = <<>>
    /\ chunks = <<>>
    /\ task = <<>>
    /\ semaphore = 0
    /\ completed = <<>>
    /\ result = [none |-> TRUE]
    /\ log = [none |-> TRUE]

InitChunker ==
    /\ op = "chunk"
    /\ text \in SmallTexts
    /\ llm = {}
    /\ InitCommon

\* a call of _chunk_text_intelligently(text)
ChunkText ==
    /\ op = "chunk"
    /\ pc = "start"
    /\ chunks' = _chunk_text_intelligently(text)
    /\ pc' = "done"
    /\ UNCHANGED <<op, text, numbered_questions, task, semaphore, completed, llm, result, log>>

NextChunker == ChunkText

SpecChunker == InitChunker /\ [][NextChunker]_vars

-----------------------------------------------------------------------------
(* analyze_text_with_llm                                                   *)

QuestionLen == 500

TenQuestions(short) ==
    [n \in 1..10 |-> Line("num", n, IF n = short THEN 18 ELSE QuestionLen, TRUE)]

AnalyzeTexts ==
    { TenQuestions(0),                   \* ten full questions, two chunks
      TenQuestions(1),                   \* the first one is "1. Why is that so?"
      <<Line("num", 1, 25, TRUE), Line("num", 2, 16, TRUE)>>,
      <<Line("text", 0, 5, FALSE)>> }    \* "Hello": no chunk

InitAnalyze ==
    /\ op = "analyze"
    /\ text \in AnalyzeTexts
    /\ llm = AllCallEndings
    /\ InitCommon

\* phases 1 and 2, and the creation of the chunk tasks given to asyncio.gather
AnalyzeStart ==
    /\ op = "analyze"
    /\ pc = "start"
    /\ numbered_questions' = _extract_numbered_questions_deterministic(text)
    /\ chunks' = _chunk_text_intelligently(text)
    /\ task' = [i \in 1..Len(chunks') |-> NewTask]
    /\ semaphore' = SemaphoreSlots
    /\ pc' = "gather"
    /\ UNCHANGED <<op, text, completed, llm, result, log>>

\* a task that starts its call without waiting for a slot
AcquireWithoutSlot(i) ==
    /\ pc = "gather"
    /\ task[i].st = "waiting"
    /\ semaphore' = semaphore - 1
    /\ task' = [task EXCEPT ![i] = [@ EXCEPT !.st = "calling", !.calls = 1]]
    /\ UNCHANGED <<op, text, pc, numbered_questions, chunks, completed, llm, result, log>>

\* "async with semaphore": a waiting chunk task takes a slot and issues its first call
AcquireSlot(i) ==
    /\ pc = "gather"
    /\ task[i].st = "waiting"
    /\ semaphore > 0
    /\ semaphore' = semaphore - 1
    /\ task' = [task EXCEPT ![i] = [@ EXCEPT !.st = "calling", !.calls = 1]]
    /\ UNCHANGED <<op, text, pc, numbered_questions, chunks, completed, llm, result, log>>

\* a task that ends without giving its slot back
FinishesKeepingSlot(i, t) ==
    /\ task' = [task EXCEPT ![i] = t]
    /\ completed' = IF t.st = "done" /\ op = "analyze" THEN Append(completed, i) ELSE completed
    /\ UNCHANGED semaphore

\* a task that ends leaves the "async with" block and is recorded as finished
Finishes(i, t) ==
    /\ task' = [task EXCEPT ![i] = t]
    /\ IF t.st = "done"
       THEN /\ semaphore' = semaphore + 1
            /\ completed' = IF op = "analyze" THEN Append(completed, i) ELSE completed
       ELSE UNCHANGED <<semaphore, completed>>

\* the outstanding call of chunk i returns or raises
ApiReturns(i) ==
    /\ op = "analyze"
    /\ pc = "gather"
    /\ task[i].st = "calling"
    /\ \E outcome \in AnalysisOutcomes(chunks[i]) :
           Finishes(i, CallOpenAIStep(task[i], outcome))
    /\ UNCHANGED <<op, text, pc, numbered_questions, chunks, llm, result, log>>

\* asyncio.sleep(retry_delay) is over: the next attempt issues its call
Wake(i) ==
    /\ pc = "gather"
    /\ task[i].st = "sleeping"
    /\ task' = [task EXCEPT ![i] = NextAttempt(@)]
    /\ UNCHANGED <<op, text, pc, numbered_questions, chunks, semaphore, completed, llm, result, log>>

AllDone == \A i \in 1..Len(task) : task[i].st = "done"

\* asyncio.gather returns; phases 3 to 5 run without suspension
Reconcile ==
    /\ op = "analyze"
    /\ pc = "gather"
    /\ AllDone
    /\ LET results == Gather(task, completed)
           merged == MergeResults(results, 1, [qs |-> <<>>, raised |-> FALSE])
           final == WithRecovery(merged.qs, numbered_questions)
       IN  IF merged.raised
           THEN /\ result' = AnalysisFailure
                /\ log' = [none |-> FALSE, coverage |-> 0, recovery_ran |-> FALSE]
           ELSE /\ result' = AnalysisResult(final, Len(chunks))
                /\ log' = [none |-> FALSE, coverage |-> Coverage(final),
                           recovery_ran |-> NeedsRecovery(merged.qs)]
    /\ pc' = "done"
    /\ UNCHANGED <<op, text, numbered_questions, chunks, task, semaphore, completed, llm>>

NextAnalyze ==
    \/ AnalyzeStart
    \/ \E i \in 1..Len(task) : AcquireSlot(i)
    \/ \E i \in 1..Len(task) : ApiReturns(i)
    \/ \E i \in 1..Len(task) : Wake(i)
    \/ Reconcile

Spec == InitAnalyze /\ [][NextAnalyze]_vars




-----------------------------------------------------------------------------
(* translate_hebrew_to_english                                             *)

TranslateTexts ==
    { <<Run("a", 5)>>,                                   \* "Hello"
      <<Run("a", 3), Run("rlm", 1), Run("a", 3)>>,       \* English around U+200F
      <<Run("arsup", 12)>>,
      <<Run("heb", 20)>>,
      <<Run("a", 5), Run("sp", 1), Run("heb", 5)>>,
      <<Run("heb", 2000), Run("nl", 2), Run("heb", 2000)>> }   \* two chunks

\* the contents the LLM may answer a translation prompt with
RawResponses ==
    { <<>>,
      <<Run("a", 20)>>,
      <<Run("a", 5)>>,
      <<Run("art", 7), Run("sp", 1), Run("a", 20)>>,
      <<Run("heb", 15)>>,
      <<Run("a", 12), Run("heb", 40)>>,                  \* mostly left untranslated
      <<Run("a", 12), Run("heb", 3), Run("rlm", 1), Run("gp", 1), Run("nbsp", 1),
        Run("br", 1), Run("lat", 1), Run("nl", 1), Run("a", 3)>> }

RawOutcome(kind, raw) == [kind |-> kind, raw |-> raw]

AllTranslateOutcomes ==
    {RawOutcome("exc", <<>>)} \cup {RawOutcome("ok", raw) : raw \in RawResponses}

InitTranslate ==
    /\ op = "translate"
    /\ text \in TranslateTexts
    /\ llm = AllTranslateOutcomes
    /\ InitCommon

\* the Hebrew check, the chunking and the creation of the chunk tasks
TranslateStart ==
    /\ op = "translate"
    /\ pc = "start"
    /\ IF ~_is_hebrew_text(text)
       THEN /\ result' = NoHebrewResult(text)
            /\ pc' = "done"
            /\ UNCHANGED <<chunks, task, semaphore>>
       ELSE /\ chunks' = _chunk_hebrew_text(text)
            /\ task' = [i \in 1..Len(chunks') |-> NewTask]
            /\ semaphore' = SemaphoreSlots
            /\ pc' = "gather"
            /\ UNCHANGED result
    /\ UNCHANGED <<op, text, numbered_questions, completed, llm, log>>

\* the outstanding call of chunk i returns or raises
TranslateReturns(i) ==
    /\ op = "translate"
    /\ pc = "gather"
    /\ task[i].st = "calling"
    /\ \E outcome \in llm :
           Finishes(i, TranslateChunkStep(task[i], outcome, i))
    /\ UNCHANGED <<op, text, pc, numbered_questions, chunks, llm, result, log>>

\* asyncio.gather returns; joining and validation run without suspension
TranslateFinish ==
    /\ op = "translate"
    /\ pc = "gather"
    /\ AllDone
    /\ LET rets == Gather(task, completed)
           successful == SuccessfulTranslations(rets)
       IN  /\ result' = FinishTranslation(text, Len(chunks), rets)
           /\ log' = IF successful = <<>>
                     THEN [none |-> FALSE, validated |-> FALSE, passed |-> FALSE, attempts |-> 0]
                     ELSE LET f == FinalTranslation(JoinTranslations(successful, Len(chunks)))
                          IN  [none |-> FALSE, validated |-> TRUE, passed |-> f.passed,
                               attempts |-> f.attempts]
    /\ pc' = "done"
    /\ UNCHANGED <<op, text, numbered_questions, chunks, task, semaphore, completed, llm>>

NextTranslate ==
    \/ TranslateStart
    \/ \E i \in 1..Len(task) : AcquireSlot(i)
    \/ \E i \in 1..Len(task) : TranslateReturns(i)
    \/ \E i \in 1..Len(task) : Wake(i)
    \/ TranslateFinish

SpecTranslate == InitTranslate /\ [][NextTranslate]_vars

-----------------------------------------------------------------------------
(* Both requests with more chunks than admission slots                     *)

ConcurrentChunks == 4

\* as many numbered questions, each filling a chunk of its own
ManyQuestions == [n \in 1..ConcurrentChunks |-> Line("num", n, 1600, TRUE)]

\* as many Hebrew paragraphs, each filling a chunk of its own
RECURSIVE ManyParagraphs(_)
ManyParagraphs(n) ==
    IF n = 1 THEN <<Run("heb", 2000)>>
    ELSE <<Run("heb", 2000), Run("nl", 2)>> \o ManyParagraphs(n - 1)

InitConcurrency ==
    /\ op \in {"analyze", "translate"}
    /\ text = IF op = "analyze" THEN ManyQuestions ELSE ManyParagraphs(ConcurrentChunks)
    /\ llm = IF op = "analyze" THEN {"exc", "echo"}
             ELSE {RawOutcome("exc", <<>>), RawOutcome("ok", <<Run("a", 20)>>)}
    /\ InitCommon

NextConcurrency ==
    \/ AnalyzeStart
    \/ TranslateStart
    \/ \E i \in 1..Len(task) : AcquireSlot(i)
    \/ \E i \in 1..Len(task) : ApiReturns(i)
    \/ \E i \in 1..Len(task) : TranslateReturns(i)
    \/ \E i \in 1..Len(task) : Wake(i)
    \/ Reconcile
    \/ TranslateFinish

SpecConcurrency == InitConcurrency /\ [][NextConcurrency]_vars

\* a call of chunk i of a translation is outstanding: ENABLED <<TranslateReturns(i)>>_vars
TranslationOutstanding(i) ==
    /\ op = "translate"
    /\ pc = "gather"
    /\ i \in DOMAIN task
    /\ task[i].st = "calling"

\* The event loop runs every coroutine that is ready, asyncio.Semaphore wakes a
\* waiter when a slot is free, asyncio.sleep ends, and every call to the LLM
\* eventually returns or raises.  The last conjunct is WF_vars(TranslateReturns(i))
\* with its enabling condition written out.
TaskFairness(i) ==
    /\ WF_vars(AcquireSlot(i))
    /\ WF_vars(ApiReturns(i))
    /\ WF_vars(Wake(i))
    /\ []<>(~TranslationOutstanding(i)) \/ []<><<TranslateReturns(i)>>_vars

\* The request coroutine itself is run when it is ready: it creates the chunk
\* tasks (the step of NextConcurrency that leaves "start") and, once
\* asyncio.gather has returned, builds its result (the step that leaves "gather").
RequestFairness ==
    /\ WF_pc(pc = "start" /\ pc' = "gather")
    /\ WF_pc(pc = "gather" /\ AllDone /\ pc' = "done")

Fairness ==
    /\ \A i \in 1..ConcurrentChunks : TaskFairness(i)
    /\ RequestFairness

SpecLive == InitConcurrency /\ [][NextConcurrency]_vars /\ Fairness

-----------------------------------------------------------------------------
(* LLMQuestionAnalyzer.analyze (llm_question_analyzer.py): the connectivity *)
(* check, analyze_text_with_llm, and the heuristic fallback                *)

\* '?' in line: the lines of the model that hold a question indicator end in '?'
HasQuestionMark(l) == l.q

\* a question of _fallback_analysis, made of line i (counted from 0); it
\* carries no source_chunk and no detection_method
FallbackQuestion(i) ==
    [ question_id |-> [src |-> "fallback", chunk |-> 0, given |-> TRUE, n |-> i],
      confidence |-> 50 ]

RECURSIVE FallbackQuestions(_, _)
FallbackQuestions(ls, i) ==
    IF ls = <<>> THEN <<>>
    ELSE (IF HasQuestionMark(ls[1]) /\ ls[1].len > 15 THEN <<FallbackQuestion(i)>> ELSE <<>>)
         \o FallbackQuestions(Tail(ls), i + 1)

_fallback_analysis(t) ==
    LET questions == FallbackQuestions(t, 0)
    IN  [ none |-> FALSE, questions |-> questions, total_questions |-> Len(questions),
          processing_method |-> "fallback" ]

\* the summary is brought up to date; no question of the model lacks a field
_validate_and_enhance_result(r) == [r EXCEPT !.total_questions = Len(r.questions)]

AnalyzerTexts ==
    { TenQuestions(0),
      <<Line("num", 1, 25, TRUE), Line("num", 2, 16, TRUE)>>,
      <<Line("text", 0, 30, TRUE), Line("num", 2, 16, TRUE), Line("numsp", 6, 25, FALSE)>>,
      <<Line("text", 0, 5, FALSE)>> }

AnalyzerCallEndings == {"exc", "echo", "unnumbered", "null_text"}

InitAnalyzer ==
    /\ op = "analyze"
    /\ text \in AnalyzerTexts
    /\ llm = AnalyzerCallEndings
    /\ pc = "analyzer"
    /\ numbered_questions = <<>>
    /\ chunks = <<>>
    /\ task = <<>>
    /\ semaphore = 0
    /\ completed = <<>>
    /\ result = [none |-> TRUE]
    /\ log = [none |-> TRUE]

\* test_api_connection: when it fails the fallback analysis is returned
TestApiConnection ==
    /\ op = "analyze"
    /\ pc = "analyzer"
    /\ \E connected \in BOOLEAN :
           IF connected
           THEN /\ pc' = "start"
                /\ UNCHANGED result
           ELSE /\ pc' = "returned"
                /\ result' = _fallback_analysis(text)
    /\ UNCHANGED <<op, text, numbered_questions, chunks, task, semaphore, completed, llm, log>>

\* analyze_text_with_llm has returned: its result is enhanced and returned
AnalyzerReturn ==
    /\ op = "analyze"
    /\ pc = "done"
    /\ result' = _validate_and_enhance_result(result)
    /\ pc' = "returned"
    /\ UNCHANGED <<op, text, numbered_questions, chunks, task, semaphore, completed, llm, log>>

NextAnalyzer ==
    \/ TestApiConnection
    \/ AnalyzeStart
    \/ \E i \in 1..Len(task) : AcquireSlot(i)
    \/ \E i \in 1..Len(task) : ApiReturns(i)
    \/ \E i \in 1..Len(task) : Wake(i)
    \/ Reconcile
    \/ AnalyzerReturn

SpecAnalyzer == InitAnalyzer /\ [][NextAnalyzer]_vars

-----------------------------------------------------------------------------
(* TranslationService.batch_translate_chunks: every text of the batch is   *)
(* given to translate_hebrew_to_english under the batch's semaphore; each  *)
(* of these calls makes a semaphore of its own for its chunk tasks.  Here  *)
(* text is the list of texts, task[i] the task of text i with its chunk    *)
(* tasks in sub, and semaphore holds the value of the batch's semaphore    *)
(* (outer) and of the semaphore of each running translation (inner).       *)

NewBatchTask == [st |-> "waiting", sub |-> <<>>, ret |-> [none |-> TRUE]]

\* the result dictionary of the batch
BatchResult(results) ==
    LET ok == {i \in 1..Len(results) : results[i].success}
    IN  [ none |-> FALSE, total_chunks |-> Len(results),
          successful_chunks |-> Cardinality(ok),
          failed_chunks |-> Len(results) - Cardinality(ok),
          success |-> 2 * Cardinality(ok) > Len(results) ]

Batches ==
    { <<ManyParagraphs(2), ManyParagraphs(2)>>,
      <<<<Run("a", 5)>>, ManyParagraphs(2), <<Run("heb", 20)>>>> }

InitBatch ==
    /\ op = "batch"
    /\ text \in Batches
    /\ llm = {RawOutcome("exc", <<>>), RawOutcome("ok", <<Run("a", 20)>>)}
    /\ pc = "start"
    /\ numbered_questions = <<>>
    /\ chunks = <<>>
    /\ task = <<>>
    /\ semaphore = [outer |-> 0, inner |-> <<>>]
    /\ completed = <<>>
    /\ result = [none |-> TRUE]
    /\ log = [none |-> TRUE]

\* the semaphore and the tasks of the batch are created
BatchStart ==
    /\ op = "batch"
    /\ pc = "start"
    /\ task' = [i \in 1..Len(text) |-> NewBatchTask]
    /\ semaphore' = [outer |-> SemaphoreSlots, inner |-> [i \in 1..Len(text) |-> 0]]
    /\ pc' = "gather"
    /\ UNCHANGED <<op, text, numbered_questions, chunks, completed, llm, result, log>>

\* text i takes a slot of the batch and translate_hebrew_to_english starts:
\* it returns at once for a text without Hebrew, else it creates its own
\* semaphore and its chunk tasks
BatchAcquire(i) ==
    /\ op = "batch"
    /\ pc = "gather"
    /\ task[i].st = "waiting"
    /\ semaphore.outer > 0
    /\ IF ~_is_hebrew_text(text[i])
       THEN /\ task' = [task EXCEPT ![i] = [@ EXCEPT !.st = "done", !.ret = NoHebrewResult(text[i])]]
            /\ UNCHANGED semaphore
       ELSE /\ task' = [task EXCEPT ![i] =
                          [@ EXCEPT !.st = "running",
                                    !.sub = [j \in 1..Len(_chunk_hebrew_text(text[i])) |-> NewTask]]]
            /\ semaphore' = [outer |-> semaphore.outer - 1,
                             inner |-> [semaphore.inner EXCEPT ![i] = SemaphoreSlots]]
    /\ UNCHANGED <<op, text, pc, numbered_questions, chunks, completed, llm, result, log>>

\* chunk j of text i takes a slot of its translation's semaphore and issues its first call
BatchChunkAcquire(i, j) ==
    /\ op = "batch"
    /\ pc = "gather"
    /\ task[i].st = "running"
    /\ task[i].sub[j].st = "waiting"
    /\ semaphore.inner[i] > 0
    /\ semaphore' = [semaphore EXCEPT !.inner[i] = @ - 1]
    /\ task' = [task EXCEPT ![i].sub[j] = [@ EXCEPT !.st = "calling", !.calls = 1]]
    /\ UNCHANGED <<op, text, pc, numbered_questions, chunks, completed, llm, result, log>>

\* the outstanding call of chunk j of text i returns or raises
BatchChunkReturns(i, j) ==
    /\ op = "batch"
    /\ pc = "gather"
    /\ task[i].st = "running"
    /\ task[i].sub[j].st = "calling"
    /\ \E outcome \in llm :
           LET t == TranslateChunkStep(task[i].sub[j], outcome, j)
           IN  /\ task' = [task EXCEPT ![i].sub[j] = t]
               /\ semaphore' = IF t.st = "done"
                               THEN [semaphore EXCEPT !.inner[i] = @ + 1]
                               ELSE semaphore
    /\ UNCHANGED <<op, text, pc, numbered_questions, chunks, completed, llm, result, log>>

\* the back-off sleep of chunk j of text i is over
BatchChunkWake(i, j) ==
    /\ op = "batch"
    /\ pc = "gather"
    /\ task[i].st = "running"
    /\ task[i].sub[j].st = "sleeping"
    /\ task' = [task EXCEPT ![i].sub[j] = NextAttempt(@)]
    /\ UNCHANGED <<op, text, pc, numbered_questions, chunks, semaphore, completed, llm, result, log>>

\* the chunk tasks of text i are done: its translation returns and frees the batch's slot
BatchTextFinish(i) ==
    /\ op = "batch"
    /\ pc = "gather"
    /\ task[i].st = "running"
    /\ \A j \in 1..Len(task[i].sub) : task[i].sub[j].st = "done"
    /\ task' = [task EXCEPT ![i] =
                   [@ EXCEPT !.st = "done",
                             !.ret = FinishTranslation(text[i], Len(task[i].sub),
                                                       Gather(task[i].sub, <<>>))]]
    /\ semaphore' = [semaphore EXCEPT !.outer = @ + 1]
    /\ UNCHANGED <<op, text, pc, numbered_questions, chunks, completed, llm, result, log>>

\* asyncio.gather of the batch returns
BatchFinish ==
    /\ op = "batch"
    /\ pc = "gather"
    /\ \A i \in 1..Len(task) : task[i].st = "done"
    /\ result' = BatchResult(Gather(task, <<>>))
    /\ pc' = "done"
    /\ UNCHANGED <<op, text, numbered_questions, chunks, task, semaphore, completed, llm, log>>

NextBatch ==
    \/ BatchStart
    \/ \E i \in 1..Len(task) : BatchAcquire(i)
    \/ \E i \in 1..Len(task) : \E j \in 1..Len(task[i].sub) : BatchChunkAcquire(i, j)
    \/ \E i \in 1..Len(task) : \E j \in 1..Len(task[i].sub) : BatchChunkReturns(i, j)
    \/ \E i \in 1..Len(task) : \E j \in 1..Len(task[i].sub) : BatchChunkWake(i, j)
    \/ \E i \in 1..Len(task) : BatchTextFinish(i)
    \/ BatchFinish

SpecBatch == InitBatch /\ [][NextBatch]_vars

-----------------------------------------------------------------------------
(* _sanitize_llm_response on its own: the response strings of the LLM      *)

MaxRuns == 2

AllClasses == {"a", ".", "sp", "nl", "br", "art", "heb", "arsup", "rlm", "gp", "nbsp", "lat"}

RECURSIVE StringsOfRuns(_)
StringsOfRuns(n) ==
    IF n = 0 THEN {<<>>}
    ELSE {Norm(Append(r, Run(c, 1))) : r \in StringsOfRuns(n - 1), c \in AllClasses}

\* "" and every string of at most MaxRuns runs
ResponseStrings == UNION {StringsOfRuns(n) : n \in 0..MaxRuns}

InitSanitize ==
    /\ op = "sanitize"
    /\ text \in ResponseStrings
    /\ llm = {}
    /\ InitCommon

\* a call of _sanitize_llm_response(text)
SanitizeResponse ==
    /\ op = "sanitize"
    /\ pc = "start"
    /\ result' = [text |-> _sanitize_llm_response(text)]
    /\ pc' = "sanitized"
    /\ UNCHANGED <<op, text, numbered_questions, chunks, task, semaphore, completed, llm, log>>

\* a second call, on the text the first call returned
SanitizeAgain ==
    /\ op = "sanitize"
    /\ pc = "sanitized"
    /\ log' = [text |-> _sanitize_llm_response(result.text)]
    /\ pc' = "done"
    /\ UNCHANGED <<op, text, numbered_questions, chunks, task, semaphore, completed, llm, result>>

NextSanitize == SanitizeResponse \/ SanitizeAgain

SpecSanitize == InitSanitize /\ [][NextSanitize]_vars

-----------------------------------------------------------------------------
(* POST /analyze (api/analysis.py) over SimplePDFParser.extract_text.  A   *)
(* document is the file found for its id ("missing", "corrupt" for a file  *)
(* PyPDF2 cannot open, "pdf") and, per page, what page.extract_text()      *)
(* gives: the lines of the page, or that the call raises.  api_key tells   *)
(* whether the OpenAI client can be constructed.                           *)

MaxPages == 2

\* "--- Page <k> ---"
PageHeader(k) == Line("text", 0, 13 + Digits(k), FALSE)

\* SimplePDFParser._clean_text: the non-empty lines, stripped
_clean_text(ls) == SelectSeq(ls, NotBlank)

\* text after the loop over pdf_reader.pages; a page that raises adds nothing
RECURSIVE PagesText(_, _)
PagesText(pages, k) ==
    IF pages = <<>> THEN <<BlankLine>>
    ELSE IF pages[1].raises THEN PagesText(Tail(pages), k + 1)
    ELSE <<BlankLine, PageHeader(k)>> \o pages[1].lines \o Tail(PagesText(Tail(pages), k + 1))

NoneText == [none |-> TRUE, lines |-> <<>>]

SomeText(ls) == [none |-> FALSE, lines |-> ls]

\* SimplePDFParser.extract_text
extract_text(doc) ==
    IF doc.file # "pdf" THEN NoneText
    ELSE SomeText(_clean_text(PagesText(doc.pages, 1)))

\* "not extracted_text": None or the empty string
NotText(t) == t.none \/ t.lines = <<>>

HTTPException(code) == [class |-> "HTTPException", status_code |-> code]

OpenAIError == [class |-> "OpenAIError", status_code |-> 0]

\* the classes "except Exception" catches
ExceptionSubclasses == {"HTTPException", "OpenAIError"}

\* what the client receives when the handler ends with raising e
HTTPResponse(e) == [status_code |-> e.status_code, questions_found |-> 0]

\* try ... except Exception as e: raise HTTPException(status_code=500, ...)
TryExcept(e) ==
    IF e.class \in ExceptionSubclasses THEN HTTPResponse(HTTPException(500))
    ELSE HTTPResponse(e)

AnalysisResponse(n) == [status_code |-> 200, questions_found |-> n]

Page(ls) == [raises |-> FALSE, lines |-> ls]

FailedPage == [raises |-> TRUE, lines |-> <<>>]

PageMenu ==
    { FailedPage,
      Page(<<BlankLine>>),                                         \* a page without text
      Page(<<Line("text", 0, 5, FALSE)>>),
      Page(<<Line("num", 1, 25, TRUE)>>),
      Page(<<Line("num", 1, 25, TRUE), BlankLine, Line("num", 2, 16, TRUE)>>) }

RECURSIVE PagesOfLen(_)
PagesOfLen(n) ==
    IF n = 0 THEN {<<>>}
    ELSE {Append(ps, pg) : ps \in PagesOfLen(n - 1), pg \in PageMenu}

Documents ==
    { [file |-> f, pages |-> <<>>, api_key |-> k] : f \in {"missing", "corrupt"}, k \in BOOLEAN }
    \cup { [file |-> "pdf", pages |-> ps, api_key |-> k] :
               ps \in UNION {PagesOfLen(n) : n \in 0..MaxPages}, k \in BOOLEAN }

InitApi ==
    /\ op = "api"
    /\ text \in Documents
    /\ llm = {}
    /\ InitCommon

\* the processors are constructed and the text is extracted
ApiExtract ==
    /\ op = "api"
    /\ pc = "start"
    /\ IF ~text.api_key
       THEN /\ result' = TryExcept(OpenAIError)
            /\ pc' = "done"
       ELSE /\ result' = [extracted_text |-> extract_text(text)]
            /\ pc' = "extracted"
    /\ UNCHANGED <<op, text, numbered_questions, chunks, task, semaphore, completed, llm, log>>

\* if not extracted_text: raise HTTPException(status_code=400, ...), inside the try
ApiNoText ==
    /\ op = "api"
    /\ pc = "extracted"
    /\ NotText(result.extracted_text)
    /\ result' = TryExcept(HTTPException(400))
    /\ pc' = "done"
    /\ UNCHANGED <<op, text, numbered_questions, chunks, task, semaphore, completed, llm, log>>

\* question_analyzer.analyze returns (it catches every exception itself) and
\* the response is built from the number of questions it found
ApiAnalyze ==
    /\ op = "api"
    /\ pc = "extracted"
    /\ ~NotText(result.extracted_text)
    /\ \E n \in 0..Len(result.extracted_text.lines) : result' = AnalysisResponse(n)
    /\ pc' = "done"
    /\ UNCHANGED <<op, text, numbered_questions, chunks, task, semaphore, completed, llm, log>>

NextApi == ApiExtract \/ ApiNoText \/ ApiAnalyze

SpecApi == InitApi /\ [][NextApi]_vars

-----------------------------------------------------------------------------
(* _extract_numbered_questions_deterministic on its own                    *)

ScanMenu == LineMenu \cup {Line("num", 0, 25, TRUE)}      \* "0. What is encryption?"

RECURSIVE ScanTextsOfLen(_)
ScanTextsOfLen(n) ==
    IF n = 0 THEN {<<>>}
    ELSE {Append(t, l) : t \in ScanTextsOfLen(n - 1), l \in ScanMenu}

ScanTexts == {<<BlankLine>>} \cup UNION {ScanTextsOfLen(n) : n \in 1..MaxLines}

InitScan ==
    /\ op = "scan"
    /\ text \in ScanTexts
    /\ llm = {}
    /\ InitCommon

\* a call of _extract_numbered_questions_deterministic(text)
ScanText ==
    /\ op = "scan"
    /\ pc = "start"
    /\ numbered_questions' = _extract_numbered_questions_deterministic(text)
    /\ pc' = "done"
    /\ UNCHANGED <<op, text, chunks, task, semaphore, completed, llm, result, log>>

NextScan == ScanText

SpecScan == InitScan /\ [][NextScan]_vars

-----------------------------------------------------------------------------
(* Properties of the chunker                                               *)

Chunked == op = "chunk" /\ pc = "done"

\* C9: _chunk_text_intelligently returns at least one chunk for every input
\* text, empty texts and texts shorter than the segment thresholds included.
C9_AtLeastOneChunk == Chunked => Len(chunks) >= 1

\* a chunk made of one detected segment
SingleSegment(c) == c.kind = "packed" /\ Len(c.segs) = 1

\* C10: every chunk is at most max_chunk_size long unless it is a single
\* detected segment that alone exceeds the bound; packing several segments
\* with their separators never exceeds the bound.
C10_ChunksWithinBound ==
    Chunked => \A i \in 1..Len(chunks) :
                   chunks[i].len <= max_chunk_size \/ SingleSegment(chunks[i])

RECURSIVE Flatten(_)
Flatten(ss) == IF ss = <<>> THEN <<>> ELSE ss[1] \o Flatten(Tail(ss))

\* the segments of the packed chunks, in chunk order
RECURSIVE SegmentsOf(_)
SegmentsOf(cs) == IF cs = <<>> THEN <<>> ELSE cs[1].segs \o SegmentsOf(Tail(cs))

\* the lines that carry content
Content(ls) == SelectSeq(ls, NotBlank)

\* fixed slices that cover the characters 0..n of the text without gap or overlap
CoversText(cs, n) ==
    /\ cs # <<>>
    /\ cs[1].lo = 0
    /\ cs[Len(cs)].hi = n
    /\ \A i \in 1..(Len(cs) - 1) : cs[i].hi = cs[i + 1].lo

Sliced(cs) == cs # <<>> /\ \A i \in 1..Len(cs) : cs[i].kind = "slice"

\* C11: the chunks, concatenated in order and without the join separators,
\* are the content of the preprocessed text in its original order: no line of
\* it is dropped, duplicated or moved.
C11_ChunksReconstructText ==
    Chunked =>
        LET t == _preprocess_text(text)
        IN  IF Sliced(chunks) THEN CoversText(chunks, LinesLen(t))
            ELSE Content(Flatten(SegmentsOf(chunks))) = Content(t)

\* C12: when a segmentation into question units was found, every chunk is a
\* sequence of whole units and the units of the chunks are the detected units
\* in order; a unit longer than max_chunk_size is one chunk of its own.
C12_UnitsKeptIntact ==
    Chunked =>
        LET segs == BestSegments(_preprocess_text(text))
        IN  segs # <<>> =>
                /\ \A i \in 1..Len(chunks) : chunks[i].kind = "packed"
                /\ SegmentsOf(chunks) = segs
                /\ \A k \in 1..Len(segs) :
                       LinesLen(segs[k]) > max_chunk_size =>
                           \E i \in 1..Len(chunks) : chunks[i].segs = <<segs[k]>>

-----------------------------------------------------------------------------
(* Properties of the deterministic scan                                    *)

Scanned == op = "scan" /\ pc = "done"

\* the line after the unit that line i opens: the next matching line, or the end
RECURSIVE UnitEnd(_, _)
UnitEnd(t, j) == IF j > Len(t) \/ NumberMatch(t[j]) THEN j ELSE UnitEnd(t, j + 1)

\* one record for every matching line from line i on, in the order of the lines
RECURSIVE RecordsFrom(_, _)
RecordsFrom(t, i) ==
    IF i > Len(t) THEN <<>>
    ELSE IF NumberMatch(t[i])
         THEN <<[number |-> t[i].n, text |-> RStrip(SubSeq(t, i, UnitEnd(t, i + 1) - 1))]>>
              \o RecordsFrom(t, i + 1)
    ELSE RecordsFrom(t, i + 1)

\* C20: the scan emits exactly one record for every line that begins with an
\* integer followed by '.' or ')', in the order of the lines; the record's
\* number is the integer on the line and its text is the line with the
\* non-matching lines that follow it.
C20_OneRecordPerNumberedLine ==
    Scanned => numbered_questions = RecordsFrom(text, 1)

-----------------------------------------------------------------------------
(* Properties of analyze_text_with_llm                                     *)

Analyzed == op = "analyze" /\ pc = "done"

HasQuestions(r) == ~r.none /\ r.hasq

\* the reply holds a candidate the merge loop raises on
RaisesIn(r) == HasQuestions(r) /\ \E k \in 1..Len(r.questions) : Raises(r.questions[k])

\* the candidates of a reply the validator accepts, in the reply's order
AcceptedOf(r) == IF HasQuestions(r) THEN SelectSeq(r.questions, _validate_question) ELSE <<>>

IsLLM(q) == q.detection_method = "llm"

IsRecovered(q) == q.detection_method = "deterministic_recovery"

LLMPart(qs) == SelectSeq(qs, IsLLM)

RecoveredPart(qs) == SelectSeq(qs, IsRecovered)

OfChunk(qs, i) == LET From(q) == q.source_chunk = i IN SelectSeq(qs, From)

CandsOf(qs) == [k \in 1..Len(qs) |-> qs[k].cand]

\* chunk i failed on every attempt and every other chunk's call returned a reply
OneChunkExhausted(i) ==
    /\ task[i].ret.none
    /\ task[i].calls = analysis_max_retries
    /\ \A j \in 1..Len(task) : j # i => HasQuestions(task[j].ret)

\* C4: when every attempt of one chunk fails and the other chunks succeed, the
\* request does not fail and returns the accepted questions of the others.
C4_FailedChunkTolerated ==
    Analyzed =>
        \A i \in 1..Len(task) :
            OneChunkExhausted(i) =>
                /\ result.processing_success
                /\ OfChunk(result.questions, i) = <<>>
                /\ \A j \in 1..Len(task) :
                       j # i => CandsOf(OfChunk(result.questions, j)) = AcceptedOf(task[j].ret)

\* C5: the questions list is a function of the per-chunk replies alone: the
\* merge runs after all tasks have finished, and the accepted questions
\* stand in ascending chunk index, in reply order within a chunk.
C5_ChunkIndexOrder ==
    /\ (op = "analyze" /\ ~result.none) => AllDone
    /\ Analyzed =>
          IF \E i \in 1..Len(task) : RaisesIn(task[i].ret)
          THEN ~result.processing_success /\ result.questions = <<>>
          ELSE LET L == LLMPart(result.questions)
               IN  /\ result.processing_success
                   /\ \A k \in 1..Len(L) : \A l \in k..Len(L) :
                          L[k].source_chunk <= L[l].source_chunk
                   /\ \A i \in 1..Len(task) :
                          CandsOf(OfChunk(L, i)) = AcceptedOf(task[i].ret)
                   /\ \A k \in 1..Len(L) : L[k].source_chunk \in 1..Len(task)

\* chunk 2 finished before chunk 1 and both replies had accepted questions
C5_Witness ==
    /\ Analyzed
    /\ completed = <<2, 1>>
    /\ result.processing_success
    /\ OfChunk(result.questions, 1) # <<>>
    /\ OfChunk(result.questions, 2) # <<>>
    /\ AcceptedOf(task[1].ret) # AcceptedOf(task[2].ret)

\* the records of the deterministic scan the accepted LLM questions do not cover
MissingRecords(qs) ==
    {k \in 1..Len(numbered_questions) :
        numbered_questions[k].number \notin FoundNumbers(LLMPart(qs))}

LongMissingRecords(qs) ==
    {k \in MissingRecords(qs) : LinesLen(numbered_questions[k].text) > 20}

\* C7 as stated: the recovered questions are as many as the records of the
\* deterministic scan whose number no accepted LLM question carries.
C7_RecoveredEqualsMissing ==
    Analyzed =>
        Len(RecoveredPart(result.questions)) = Cardinality(MissingRecords(result.questions))

\* C7: in a successful result with fewer than ten accepted LLM questions the
\* recovered questions are as many as the uncovered records whose text is
\* longer than 20 characters; in every other result there are none.
C7_RecoveredWhenShort ==
    Analyzed =>
        Len(RecoveredPart(result.questions)) =
            IF result.processing_success
                   /\ Len(LLMPart(result.questions)) < ExpectedQuestions
            THEN Cardinality(LongMissingRecords(result.questions))
            ELSE 0

\* a question was recovered while a short uncovered record was passed over
C7_Witness ==
    /\ Analyzed
    /\ result.processing_success
    /\ RecoveredPart(result.questions) # <<>>
    /\ LongMissingRecords(result.questions) # MissingRecords(result.questions)

\* C8: for ten well-formed numbered questions the deterministic scan gives
\* the numbers 1..10 and the coverage of the reconciled list is 100%.
C8_TenQuestionsFullCoverage ==
    (Analyzed /\ text = TenQuestions(0) /\ result.processing_success) =>
        /\ {numbered_questions[k].number : k \in 1..Len(numbered_questions)} = 1..10
        /\ Len(numbered_questions) = 10
        /\ log.coverage = 100

-----------------------------------------------------------------------------
(* Properties of translate_hebrew_to_english                               *)

TranslationDone == op = "translate" /\ pc = "done"

\* the classes of the characters A-Z a-z 0-9 . , ! ? ; : ( ) " ' - newline space
AllowList == {"a", ".", "sp", "nl", "art"}

\* C1: a result with hebrew_free_guaranteed = True holds only allow-list
\* characters, whatever the LLM returned and whichever chunks were
\* replaced by failure markers.
C1_GuaranteedAllowList ==
    (TranslationDone /\ result.hebrew_free_guaranteed) =>
        Classes(result.translated_text) \subseteq AllowList

\* both chunks came back as bracketed markers and the result is guaranteed
C1_Witness ==
    /\ TranslationDone
    /\ result.hebrew_free_guaranteed
    /\ Len(task) = 2
    /\ \A i \in 1..Len(task) : "br" \in Classes(task[i].ret.text)
    /\ result.translated_text # <<>>

\* C2: for every input text the translated_text of translate_hebrew_to_english
\* and of translate_exam_document holds no character that
\* _contains_hebrew_characters flags.
C2_NoFlaggedCharacter ==
    TranslationDone =>
        /\ ~_contains_hebrew_characters(result.translated_text)
        /\ ~_contains_hebrew_characters(translate_exam_document(result).translated_text)

LLMCalls == IF task = <<>> THEN 0 ELSE Cardinality({i \in 1..Len(task) : task[i].calls > 0})

UnchangedWithoutCall ==
    /\ result.translated_text = text
    /\ result.success
    /\ ~result.has_hebrew
    /\ result.message = "No Hebrew text detected in input"
    /\ LLMCalls = 0

-----------------------------------------------------------------------------
(* Properties of the admission of chunk tasks                              *)

TasksIn(states) == {i \in 1..Len(task) : task[i].st \in states}

\* the LLM calls issued and not yet returned
Outstanding == Cardinality(TasksIn({"calling"}))

\* C3: in an analysis request and in a translation request at most 3 LLM
\* calls are outstanding at any time; all chunk tasks exist from the start
\* of the gather and a task that has no slot has issued no call.
C3_AtMostThreeOutstanding ==
    /\ Outstanding <= 3
    /\ pc = "gather" =>
          /\ Len(task) = Len(chunks)
          /\ semaphore + Cardinality(TasksIn({"calling", "sleeping"})) = 3
          /\ \A i \in TasksIn({"waiting"}) : task[i].calls = 0

\* three calls are outstanding, one of them a retry, and a task is waiting
C3_Witness ==
    /\ pc = "gather"
    /\ Outstanding = 3
    /\ TasksIn({"waiting"}) # {}
    /\ \E i \in TasksIn({"calling"}) : task[i].attempt > 0


-----------------------------------------------------------------------------
(* Properties of the merged questions list                                 *)

\* C18: the question_id values of the questions list returned by
\* analyze_text_with_llm are pairwise distinct.
C18_DistinctQuestionIds ==
    Analyzed =>
        \A j, k \in 1..Len(result.questions) :
            j # k => result.questions[j].question_id # result.questions[k].question_id

\* the candidates of a reply that are well-formed and pass the validator
WellFormedAccepted(r) ==
    LET Ok(c) == ~Raises(c) /\ _validate_question(c)
    IN  IF HasQuestions(r) THEN SelectSeq(r.questions, Ok) ELSE <<>>

\* C19: a candidate that fails validation, a structurally malformed one
\* included, is dropped without an exception: the merge completes and the
\* questions accepted from the other candidates and chunks are returned.
C19_MalformedDropped ==
    Analyzed =>
        /\ result.processing_success
        /\ \A j \in 1..Len(task) :
               CandsOf(OfChunk(LLMPart(result.questions), j)) = WellFormedAccepted(task[j].ret)

\* the number of the source question a question of the result stands for:
\* the number of the recovered record, or the question the candidate answers
SourceNumber(q) == IF IsRecovered(q) THEN q.num ELSE q.cand.id

\* C21: after reconciliation the result never holds both an LLM-accepted
\* copy and a recovered copy of the same numbered source question, also when
\* the LLM's question_text does not keep the leading number.
C21_NoRecoveredDuplicate ==
    Analyzed =>
        \A j, k \in 1..Len(result.questions) :
            (IsLLM(result.questions[j]) /\ IsRecovered(result.questions[k]))
                => SourceNumber(result.questions[j]) # SourceNumber(result.questions[k])

-----------------------------------------------------------------------------
(* Properties of the chunk results of translate_hebrew_to_english          *)

\* the back-off delays of a chunk whose first four calls raised
AllDelays == <<1, 2, 4, 8>>

\* every call of chunk i raised: four back-off sleeps, then the last
\* attempt ends in the except branch
EveryCallRaised(i) ==
    /\ task[i].st = "done"
    /\ task[i].calls = translate_max_retries
    /\ task[i].delays = AllDelays
    /\ task[i].ret = Translated(TRANSLATION_ERROR_CHUNK(i))

\* C16: when every LLM call of every chunk fails on every attempt, the result
\* is marked unsuccessful: success = False, the error 'Translation failed for
\* all chunks', and translated_text is the original text.
C16_AllFailedUnsuccessful ==
    (TranslationDone /\ Len(task) >= 1 /\ \A i \in 1..Len(task) : EveryCallRaised(i)) =>
        /\ result.success = FALSE
        /\ result.message = "Translation failed for all chunks"
        /\ result.translated_text = text

\* C17: a chunk whose attempts are all exhausted is not counted as
\* translated: translated_chunks is smaller than original_chunks whenever
\* some chunk failed on every attempt.
C17_FailedChunkNotCounted ==
    (TranslationDone /\ \E i \in 1..Len(task) : EveryCallRaised(i)) =>
        result.translated_chunks < result.original_chunks

\* the characters of a string, one class per character
RECURSIVE Expand(_)
Expand(s) == IF s = <<>> THEN <<>> ELSE [k \in 1..s[1].n |-> s[1].c] \o Expand(Tail(s))

StartsWith(s, p) ==
    StrLen(p) <= StrLen(s) /\ SubSeq(Expand(s), 1, StrLen(p)) = Expand(p)

\* the text opens with the marker that notes the lengths n and m, as written
\* or as the final validation leaves it
CarriesCleanedMarker(s, n, m) ==
    \/ StartsWith(s, TRANSLATION_CLEANED(n, m))
    \/ StartsWith(s, RemoveInvalid(TRANSLATION_CLEANED(n, m)))

\* the cleaning of a response discards more than 70% of its length
HeavilyCleaned(raw) ==
    raw # <<>> /\ StrLen(_sanitize_llm_response(raw)) * 10 < StrLen(StripStr(raw)) * 3

\* the one chunk of the text was translated by its first call, which returned raw
FirstCallReturned(raw) ==
    /\ Len(task) = 1
    /\ task[1].calls = 1
    /\ task[1].ret = Translated(_sanitize_llm_response(raw))

\* C25: whenever the cleaning on the translation path discards more than 70%
\* of a text's length, translated_text carries the marker that notes the
\* original and the cleaned length.
C25_HeavyCleaningMarked ==
    TranslationDone =>
        \A o \in llm :
            (o.kind = "ok" /\ HeavilyCleaned(o.raw) /\ FirstCallReturned(o.raw)) =>
                CarriesCleanedMarker(result.translated_text, StrLen(StripStr(o.raw)),
                                     StrLen(_sanitize_llm_response(o.raw)))

\* the input holds a character of the Hebrew block
ContainsHebrew(s) == "heb" \in Classes(s)

\* C26: has_hebrew of the result is true exactly when the input text
\* contained Hebrew text, and translate_document reports the source language
\* 'hebrew' for Hebrew input.
C26_HasHebrewTellsInput ==
    TranslationDone =>
        /\ result.has_hebrew <=> ContainsHebrew(text)
        /\ ContainsHebrew(text) => translate_document(result).source_language = "hebrew"

-----------------------------------------------------------------------------
(* Properties of _call_openai_api                                          *)

\* chunk task i takes a step of _call_openai_api: its outstanding call ends
CallEnds(i) ==
    /\ op = "analyze"
    /\ Len(task') = Len(task)
    /\ task[i].st = "calling"
    /\ task'[i] # task[i]

\* C15: _call_openai_api issues at most analysis_max_retries (3) calls for a
\* chunk; however a call ends, the function either returns, sleeps before the
\* next attempt or goes on to the next attempt, it never raises; when its
\* third call has ended it returns, and it returns the failure value None
\* only then.
C15_ThreeCallsThenNone ==
    [][ \A i \in 1..Len(task) :
          CallEnds(i) =>
              /\ task'[i].calls <= analysis_max_retries
              /\ task'[i].st \in {"done", "sleeping", "calling"}
              /\ task[i].calls = analysis_max_retries => task'[i].st = "done"
              /\ (task'[i].st = "done" /\ task'[i].ret = NoResult)
                     => task[i].calls = analysis_max_retries ]_vars

\* a chunk whose three calls all failed, one of the first two by an exception
\* and the other by a response that cannot be parsed, and that returned None
C15_Witness ==
    /\ op = "analyze"
    /\ \E i \in 1..Len(task) :
           /\ task[i].st = "done"
           /\ task[i].ret = NoResult
           /\ task[i].calls = analysis_max_retries
           /\ task[i].delays = <<1>>

\* C22: a response that cannot be parsed is handled like a transport error:
\* the attempt is used up and, unless it was the last one (then None is
\* returned), the back-off delay is slept before the next attempt is made.
C22_ParseFailureBacksOff ==
    [][ \A i \in 1..Len(task) :
          CallEnds(i) =>
              \/ task'[i].st = "done"
              \/ /\ task'[i].st = "sleeping"
                 /\ task'[i].attempt = task[i].attempt
                 /\ task'[i].delays = Append(task[i].delays, task[i].retry_delay) ]_vars

-----------------------------------------------------------------------------
(* Properties of _sanitize_llm_response                                    *)

SanitizedTwice == op = "sanitize" /\ pc = "done"

\* C13: for every response string the text the sanitizer returns holds only
\* characters of its allow-list, and sanitizing that text again returns it
\* unchanged; the empty response and the response of which nothing survives
\* are included.
C13_SanitizerIdempotent ==
    SanitizedTwice =>
        /\ Classes(result.text) \subseteq SanitizeAllowed
        /\ log.text = result.text


-----------------------------------------------------------------------------
(* Properties of POST /analyze                                             *)

ApiDone == op = "api" /\ pc = "done"

\* the request got as far as the extraction and no text came out of it
NoTextExtracted == text.api_key /\ NotText(extract_text(text))

\* C14: when no text can be extracted from the document the client receives
\* HTTP 400; HTTP 500 is received only when something else raised.
C14_NoTextIsClientError ==
    ApiDone =>
        /\ NoTextExtracted => result.status_code = 400
        /\ result.status_code = 500 => ~NoTextExtracted


-----------------------------------------------------------------------------
(* Properties of LLMQuestionAnalyzer.analyze                               *)

AnalyzerReturned == op = "analyze" /\ pc = "returned"

IsFallback(r) == "processing_method" \in DOMAIN r

\* C23: whenever the LLM analysis fails, by the connectivity check or by
\* analyze_text_with_llm reporting processing_success = False, analyze
\* returns the result of the fallback analysis.
C23_FallbackOnFailure ==
    AnalyzerReturned => (IsFallback(result) \/ result.processing_success)

\* C24: every question of every result of analyze carries a detection method
\* tag: llm, deterministic recovery or fallback heuristic.
C24_DetectionMethodTag ==
    AnalyzerReturned =>
        \A k \in 1..Len(result.questions) :
            /\ "detection_method" \in DOMAIN result.questions[k]
            /\ result.questions[k].detection_method
                   \in {"llm", "deterministic_recovery", "fallback_heuristic"}


-----------------------------------------------------------------------------
(* Properties of batch_translate_chunks                                    *)

\* the LLM calls outstanding in the batch
BatchOutstanding ==
    Cardinality({p \in (1..Len(task)) \X (1..2) :
                    /\ p[2] <= Len(task[p[1]].sub)
                    /\ task[p[1]].sub[p[2]].st = "calling"})

\* C27: during batch_translate_chunks at most 3 LLM calls are outstanding at
\* any time, also when texts of the batch are split into several chunks.
C27_BatchAtMostThreeOutstanding ==
    (op = "batch" /\ pc = "gather") => BatchOutstanding <= SemaphoreSlots


-----------------------------------------------------------------------------
(* Termination                                                             *)

AllTasksFinished ==
    /\ pc = "done"
    /\ Len(task) = ConcurrentChunks
    /\ \A i \in 1..Len(task) : task[i].st = "done"

\* C28: when every LLM call eventually returns or raises, every chunk task
\* eventually gets a slot and finishes, and analyze_text_with_llm and
\* translate_hebrew_to_english eventually return.
C28_EventuallyReturns == <>AllTasksFinished

\* the operation has returned after a chunk had to wait for a slot and a
\* chunk used up its retries
C28_Witness ==
    /\ AllTasksFinished
    /\ \E i \in 1..Len(task) : Len(task[i].delays) >= 2

-----------------------------------------------------------------------------
(* Backoff                                                                 *)

\* max_retries of the retry loop the chunk tasks of the request run
MaxRetries == IF op = "analyze" THEN analysis_max_retries ELSE translate_max_retries

\* C29: in both retry loops the delay slept after the k-th transport error of a
\* chunk is 2^(k-1) seconds, at most max_retries - 1 delays are taken (1, 2 in
\* _call_openai_api; 1, 2, 4, 8 in _translate_chunk), and a task never sleeps
\* after its final attempt.
C29_ExponentialBackoff ==
    \A i \in 1..Len(task) :
        /\ Len(task[i].delays) <= MaxRetries - 1
        /\ \A k \in 1..Len(task[i].delays) : task[i].delays[k] = 2^(k - 1)
        /\ task[i].st = "sleeping" => task[i].attempt < MaxRetries - 1

\* one chunk of an analysis failed after the delays 1, 2 and one chunk of a
\* translation failed after the delays 1, 2, 4, 8
AnalysisChunkExhausted ==
    /\ op = "analyze"
    /\ \E i \in 1..Len(task) :
           /\ task[i].st = "done"
           /\ task[i].calls = analysis_max_retries
           /\ task[i].ret = NoResult
           /\ task[i].delays = <<1, 2>>

TranslationChunkExhausted ==
    /\ op = "translate"
    /\ \E i \in 1..Len(task) :
           /\ task[i].st = "done"
           /\ task[i].calls = translate_max_retries
           /\ task[i].ret = Translated(TRANSLATION_ERROR_CHUNK(i))
           /\ task[i].delays = <<1, 2, 4, 8>>

C29_Witness == TranslationChunkExhausted

-----------------------------------------------------------------------------
(* Final validation of a joined translation                                *)

\* translate_hebrew_to_english has joined chunk translations and validated them
JoinedAndValidated ==
    /\ TranslationDone
    /\ ~log.none
    /\ log.validated

\* C30: for every joined translation the multi-layer validation reaches
\* "validation passed" within its 3 attempts, so the emergency purge does not
\* run and the catastrophic-failure sentinel is not returned.
C30_ValidationPasses ==
    JoinedAndValidated =>
        /\ log.passed
        /\ log.attempts <= max_validation_attempts
        /\ result.translated_text # CATASTROPHIC_FAILURE

\* validation passed on its second attempt, after Layer 2 had removed the
\* brackets of a failure marker
C30_Witness ==
    /\ JoinedAndValidated
    /\ log.passed
    /\ log.attempts = 2
    /\ \E i \in 1..Len(task) : "br" \in Classes(task[i].ret.text)

====
